---- MODULE Spec2Model ----
(***************************************************************************)
(* A model of the SMPy mass-mapping core: the pixel coordinate system     *)
(* (smpy/coordinates/pixel.py), the weighted binning of a shear catalog   *)
(* (smpy/utils.py), the aperture-mass filter and mapper                   *)
(* (smpy/mapping_methods/aperture_mass/aperture_mass.py) and the          *)
(* orchestration in smpy/run.py.                                          *)
(*                                                                         *)
(* Numbers.  Python floats are IEEE-754 doubles.  Where rounding decides  *)
(* the outcome (the grid-size adjustment of create_grid) the model        *)
(* carries doubles exactly: a positive double is [hi, lo, e] with the     *)
(* 53-bit mantissa m = hi * 2^28 + lo, 2^52 <= m < 2^53, and value        *)
(* m * 2^e.  The catalog and the binning work on small integers and       *)
(* rationals with small denominators, on which double arithmetic is       *)
(* exact, and the model uses exact integer arithmetic there.  The         *)
(* aperture mass sums are exact fractions that carry a mark where a       *)
(* rounded cosine or sine has entered them.                               *)
(***************************************************************************)
EXTENDS Integers, Sequences, FiniteSets, TLC

(***************************************************************************)
(* IEEE-754 double arithmetic on two 28-bit limbs                          *)
(***************************************************************************)
LimbBase == 2^28

MantHiMin == 2^24

\* Two-limb naturals <<hi, lo>> = hi * LimbBase + lo, with lo < LimbBase.
LimbGeq(a, b) == a[1] > b[1] \/ (a[1] = b[1] /\ a[2] >= b[2])

LimbSub(a, b) ==
    IF a[2] >= b[2] THEN <<a[1] - b[1], a[2] - b[2]>>
    ELSE <<a[1] - b[1] - 1, a[2] + LimbBase - b[2]>>

LimbInc(a) == IF a[2] + 1 = LimbBase THEN <<a[1] + 1, 0>> ELSE <<a[1], a[2] + 1>>

LimbDouble(a) == <<2 * a[1] + (2 * a[2]) \div LimbBase, (2 * a[2]) % LimbBase>>

\* a * 16
LimbShift4(a) == <<16 * a[1] + (a[2] \div 2^24), (a[2] % 2^24) * 16>>

\* a * j for 0 <= j <= 16, the low limb multiplied in two 14-bit halves.
LimbCarry(hi, u, t) == <<hi + (u \div 2^14), (u % 2^14) * 2^14 + (t % 2^14)>>

LimbTimes(a, j) ==
    LimbCarry(a[1] * j,
              (a[2] \div 2^14) * j + (((a[2] % 2^14) * j) \div 2^14),
              (a[2] % 2^14) * j)

\* a + digit * 2^shift, for a hexadecimal digit that does not straddle the limbs.
LimbPlaceDigit(a, digit, shift) ==
    IF shift >= 28 THEN <<a[1] + digit * 2^(shift - 28), a[2]>>
    ELSE <<a[1], a[2] + digit * 2^shift>>

\* float(n) for an integer 1 <= n < 2^28: exact, the mantissa shifted to 53 bits.
ShiftedMantissa(n, shift) ==
    IF shift >= 28
    THEN [hi |-> n * 2^(shift - 28), lo |-> 0, e |-> 0 - shift]
    ELSE [hi |-> n \div 2^(28 - shift),
          lo |-> (n % 2^(28 - shift)) * 2^shift, e |-> 0 - shift]

FromInt(n) == ShiftedMantissa(n, 53 - Cardinality({k \in 0..27 : 2^k <= n}))

\* The next hexadecimal digit of r16 / d, for r16 < 16 * d.
QuotientDigit(r16, d) == Cardinality({j \in 1..15 : LimbGeq(r16, LimbTimes(d, j))})

PlaceIn(rest, digit, shift) == <<rest[1], LimbPlaceDigit(rest[2], digit, shift)>>

\* Long division in base 16: the next k hexadecimal digits of r / d (r < d)
\* and the remainder left after them, <<remainder, digits>>.
RECURSIVE DivLoop(_, _, _)
RECURSIVE DivStep(_, _, _, _)
DivLoop(r, d, k) ==
    IF k = 0 THEN <<r, <<0, 0>>>>
    ELSE DivStep(LimbShift4(r), d, k, QuotientDigit(LimbShift4(r), d))

DivStep(r16, d, k, digit) ==
    IF digit = 0 THEN DivLoop(r16, d, k - 1)
    ELSE PlaceIn(DivLoop(LimbSub(r16, LimbTimes(d, digit)), d, k - 1),
                 digit, 4 * (k - 1))

\* Round to nearest, ties to even: q is the 53-bit quotient, rem2 twice the
\* remainder; then renormalise when the increment carried into bit 53.
RoundQuotient(q, rem2, d, e) ==
    IF (IF rem2 = d THEN q[2] % 2 = 1 ELSE LimbGeq(rem2, d))
    THEN (IF LimbInc(q)[1] >= 2 * MantHiMin
          THEN [hi |-> MantHiMin, lo |-> 0, e |-> e + 1]
          ELSE [hi |-> LimbInc(q)[1], lo |-> LimbInc(q)[2], e |-> e])
    ELSE [hi |-> q[1], lo |-> q[2], e |-> e]

\* The quotient of the mantissas n / d, which lies in (1/2, 2): the leading
\* bit, then 52 more by long division.
MantissaDiv(rq, d, e) ==
    RoundQuotient(LimbPlaceDigit(rq[2], 1, 52), LimbDouble(rq[1]), d, e)

\* x / y for positive doubles, rounded to nearest, ties to even.
FloatDiv(x, y) ==
    IF LimbGeq(<<x.hi, x.lo>>, <<y.hi, y.lo>>)
    THEN MantissaDiv(DivLoop(LimbSub(<<x.hi, x.lo>>, <<y.hi, y.lo>>),
                             <<y.hi, y.lo>>, 13),
                     <<y.hi, y.lo>>, x.e - y.e - 52)
    ELSE MantissaDiv(DivLoop(LimbSub(LimbDouble(<<x.hi, x.lo>>), <<y.hi, y.lo>>),
                             <<y.hi, y.lo>>, 13),
                     <<y.hi, y.lo>>, x.e - y.e - 53)

\* x >= y for positive doubles.
FloatGeq(x, y) ==
    x.e > y.e \/ (x.e = y.e /\ LimbGeq(<<x.hi, x.lo>>, <<y.hi, y.lo>>))

\* int(np.ceil(x)) for a positive double below 2^31: the mantissa shifted
\* right by k = -e bits, plus one when a fraction bit is set.
CeilShifted(hi, lo, k) ==
    IF k >= 53 THEN 1
    ELSE IF k >= 28
    THEN (hi \div 2^(k - 28)) + (IF hi % 2^(k - 28) # 0 \/ lo # 0 THEN 1 ELSE 0)
    ELSE hi * 2^(28 - k) + (lo \div 2^k) + (IF lo % 2^k # 0 THEN 1 ELSE 0)

CeilToInt(x) == CeilShifted(x.hi, x.lo, 0 - x.e)

\* int(np.ceil(n / f)) for an integer n >= 0 and a positive double f.
CeilOfQuotient(n, f) == IF n = 0 THEN 0 ELSE CeilToInt(FloatDiv(FromInt(n), f))

(***************************************************************************)
(* Values                                                                  *)
(*                                                                         *)
(* A catalog number is <<"i", n>>, the integer n, or <<"f", k>>, the      *)
(* float k / CoordDen.  Boundaries are integer-valued floats and are      *)
(* carried as integers.  A grid cell is an exact fraction <<n, d>>.       *)
(***************************************************************************)
CoordDen == 2

\* The real value of a catalog number, in units of 1 / CoordDen.
Numer(v) == IF v[1] = "i" THEN v[2] * CoordDen ELSE v[2]

\* Series.astype(float) on one value.
AsFloat(v) == <<"f", Numer(v)>>

\* np.floor and np.ceil of a catalog number (\div rounds towards minus infinity).
NpFloor(v) == Numer(v) \div CoordDen

NpCeil(v) == 0 - ((0 - Numer(v)) \div CoordDen)

RECURSIVE Gcd(_, _)
Gcd(a, b) == IF b = 0 THEN a ELSE Gcd(b, a % b)

Abs(n) == IF n < 0 THEN 0 - n ELSE n

\* n / d for d # 0, in lowest terms with a positive denominator.
Frac(n, d) ==
    LET g == Gcd(Abs(n), Abs(d))
        sg == IF d < 0 THEN 0 - 1 ELSE 1
    IN  <<sg * (n \div g), sg * (d \div g)>>

Zero == <<0, 1>>

\* A dict is a set of <<key, value>> pairs; dict.get(key, default).
HasKey(dict, key) == \E kv \in dict : kv[1] = key

Get(dict, key, default) ==
    IF HasKey(dict, key) THEN (CHOOSE kv \in dict : kv[1] = key)[2] ELSE default

VARIABLES
    pc,                 \* the control point of the run being modelled
    config,             \* the configuration: the 'pixel' sub-dict
    frames,             \* the DataFrame objects: id -> (column name -> values)
    shear_df,           \* the id the caller's name shear_df is bound to
    scaled_boundaries,  \* the boundaries record, or NoValue
    grid,               \* what create_grid produced, or NoValue
    mapper_config,      \* the mapper's configuration dict (self.config)
    g1_grid,            \* the first shear grid the mapper is given: cell -> value
    g2_grid,            \* the second shear grid the mapper is given
    scale,              \* the filter scale in pixels
    radii,              \* the radius handed to the filter function
    filter_vals,        \* what the filter function returned for it
    map_e,              \* the E-mode map being filled
    map_b,              \* the B-mode map being filled
    noise,              \* the noise map being filled (as noise squared)
    pos,                \* the number of pixels the running loop has finished
    done,               \* the pixels a loop run in another order has finished
    maps,               \* what create_maps returned, or NoValue
    run_config,         \* the configuration dict run_mapping is given
    coord_system_type,  \* run_mapping's local of that name
    calls,              \* the calls run_mapping has made so far, in order
    g1map,              \* the first grid create_grid returned to run_mapping
    g2map,              \* the second grid create_grid returned to run_mapping
    mapper,             \* the class of the mapper instance, or NoValue
    error               \* the exception that ended the run, or NoValue

pixelVars == <<config, frames, shear_df, scaled_boundaries, grid>>

apertureVars == <<mapper_config, g1_grid, g2_grid, scale, radii, filter_vals,
                  map_e, map_b, noise, pos, done, maps>>

runVars == <<run_config, coord_system_type, calls, g1map, g2map, mapper, error>>

vars == <<pc, pixelVars, apertureVars, runVars>>

NoValue == [none |-> TRUE]

\* The parts of the state a run that stops at the grid never touches.
PixelIdle ==
    /\ config = NoValue /\ frames = NoValue /\ shear_df = NoValue
    /\ scaled_boundaries = NoValue /\ grid = NoValue

RunIdle ==
    /\ run_config = NoValue /\ coord_system_type = NoValue /\ calls = NoValue
    /\ g1map = NoValue /\ g2map = NoValue /\ mapper = NoValue /\ error = NoValue

ApertureIdle ==
    /\ mapper_config = NoValue /\ g1_grid = NoValue /\ g2_grid = NoValue
    /\ scale = NoValue /\ radii = NoValue /\ filter_vals = NoValue
    /\ map_e = NoValue /\ map_b = NoValue /\ noise = NoValue
    /\ pos = NoValue /\ done = NoValue /\ maps = NoValue

(***************************************************************************)
(* PixelSystem (smpy/coordinates/pixel.py)                                 *)
(***************************************************************************)
max_grid_size == 10000

\* A configured downsample_factor is the rational <<num, den>>; as a double.
AsDouble(q) == FloatDiv(FromInt(q[1]), FromInt(q[2]))

get_grid_parameters(cfg) ==
    [downsample_factor |-> AsDouble(Get(cfg, "downsample_factor", <<1, 1>>)),
     max_grid_size |-> max_grid_size]

Max2(a, b) == IF a >= b THEN a ELSE b

\* max(downsample, min_downsample) of two doubles.
FloatMax(x, y) == IF FloatGeq(x, y) THEN x ELSE y

\* create_grid, lines 76-79: the factor is raised and the dimensions recomputed.
AdjustedDimensions(raw_npix_x, raw_npix_y, downsample) ==
    [raw_npix_x |-> raw_npix_x, raw_npix_y |-> raw_npix_y,
     downsample |-> downsample, warned |-> TRUE,
     npix_x |-> CeilOfQuotient(raw_npix_x, downsample),
     npix_y |-> CeilOfQuotient(raw_npix_y, downsample)]

\* create_grid, lines 71-80: the safety check for the grid size.
CheckedDimensions(raw_npix_x, raw_npix_y, downsample, max_size, npix_x, npix_y) ==
    IF npix_x > max_size \/ npix_y > max_size
    THEN AdjustedDimensions(raw_npix_x, raw_npix_y,
             FloatMax(downsample,
                      FloatDiv(FromInt(Max2(raw_npix_x, raw_npix_y)),
                               FromInt(max_size))))
    ELSE [raw_npix_x |-> raw_npix_x, raw_npix_y |-> raw_npix_y,
          downsample |-> downsample, warned |-> FALSE,
          npix_x |-> npix_x, npix_y |-> npix_y]

\* create_grid, lines 63-69: the raw and the downsampled dimensions.  The
\* boundaries are integer-valued, so np.ceil of their difference is the difference.
RawDimensions(raw_npix_x, raw_npix_y, grid_params) ==
    CheckedDimensions(raw_npix_x, raw_npix_y,
                      grid_params.downsample_factor, grid_params.max_grid_size,
                      CeilOfQuotient(raw_npix_x, grid_params.downsample_factor),
                      CeilOfQuotient(raw_npix_y, grid_params.downsample_factor))

\* create_grid, lines 54-80: the grid dimensions and the downsample factor used.
GridDimensions(boundaries, cfg) ==
    RawDimensions(boundaries.coord1_max - boundaries.coord1_min,
                  boundaries.coord2_max - boundaries.coord2_min,
                  get_grid_parameters(cfg))

\* The values of a sequence, and the extremes np.min / np.max pick.
Range(seq) == {seq[i] : i \in DOMAIN seq}

NpMin(seq) == CHOOSE v \in Range(seq) : \A w \in Range(seq) : Numer(v) <= Numer(w)

NpMax(seq) == CHOOSE v \in Range(seq) : \A w \in Range(seq) : Numer(v) >= Numer(w)

\* The boundaries with int() in place of np.floor and np.ceil: truncation.
Truncate(v) == IF Numer(v) >= 0 THEN NpFloor(v) ELSE NpCeil(v)

calculate_boundaries_truncated(coord1, coord2) ==
    [coord1_min |-> Truncate(NpMin(coord1)),
     coord1_max |-> Truncate(NpMax(coord1)),
     coord2_min |-> Truncate(NpMin(coord2)),
     coord2_max |-> Truncate(NpMax(coord2)),
     coord1_name |-> "X", coord2_name |-> "Y", units |-> "pixels"]

\* calculate_boundaries, lines 109-117; both returned values are this one dict.
calculate_boundaries(coord1, coord2) ==
    [coord1_min |-> NpFloor(NpMin(coord1)),
     coord1_max |-> NpCeil(NpMax(coord1)),
     coord2_min |-> NpFloor(NpMin(coord2)),
     coord2_max |-> NpCeil(NpMax(coord2)),
     coord1_name |-> "X", coord2_name |-> "Y", units |-> "pixels"]

\* df[name] = values: the column is added, or replaced when it is there already.
SetColumn(df, name, values) ==
    [c \in DOMAIN df \cup {name} |-> IF c = name THEN values ELSE df[c]]

AsTypeFloat(column) == [i \in DOMAIN column |-> AsFloat(column[i])]

\* DataFrame.copy(): a new object holding the same columns.
NewId(heap) == Cardinality(DOMAIN heap) + 1

CopyFrame(heap, id) == [i \in DOMAIN heap \cup {NewId(heap)} |->
                            IF i = NewId(heap) THEN heap[id] ELSE heap[i]]

\* transform_coordinates without the copy: the columns are set on the input.
transform_coordinates_in_place(heap, data_df) ==
    LET with1 == SetColumn(heap[data_df], "coord1_scaled",
                           AsTypeFloat(heap[data_df]["coord1"]))
        with2 == SetColumn(with1, "coord2_scaled",
                           AsTypeFloat(heap[data_df]["coord2"]))
    IN  [heap |-> [heap EXCEPT ![data_df] = with2], result |-> data_df]

\* transform_coordinates, lines 142-148, on the heap of DataFrame objects:
\* the heap afterwards and the id of the DataFrame returned.
transform_coordinates(heap, data_df) ==
    LET transformed_df == NewId(heap)
        copied == CopyFrame(heap, data_df)
        with1 == SetColumn(copied[transformed_df], "coord1_scaled",
                           AsTypeFloat(copied[data_df]["coord1"]))
        with2 == SetColumn(with1, "coord2_scaled",
                           AsTypeFloat(copied[data_df]["coord2"]))
    IN  [heap |-> [copied EXCEPT ![transformed_df] = with2],
         result |-> transformed_df]

\* np.digitize(v, np.linspace(lo, hi, n + 1)) - 1: one less than the number of
\* bin edges lo + k * (hi - lo) / n that are <= v (linspace(lo, hi, 1) is [lo]).
BinIndex(v, lo, hi, n) ==
    IF n = 0 THEN (IF CoordDen * lo <= Numer(v) THEN 0 ELSE 0 - 1)
    ELSE Cardinality({k \in 0..n :
             CoordDen * (lo * n + k * (hi - lo)) <= Numer(v) * n}) - 1

(***************************************************************************)
(* The weighted binning (smpy/utils.py, create_shear_grid)                 *)
(*                                                                         *)
(* A grid created by np.zeros is carried sparsely: a function on the      *)
(* cells written so far, every other cell being 0.                        *)
(***************************************************************************)
Lookup(acc, cell) == IF cell \in DOMAIN acc THEN acc[cell] ELSE 0

Put(acc, cell, value) ==
    [c \in DOMAIN acc \cup {cell} |-> IF c = cell THEN value ELSE acc[c]]

\* acc[cells] += values: buffered, so the last record of a cell overwrites.
RECURSIVE AddAtBuffered(_, _, _, _)
AddAtBuffered(acc, cells, values, i) ==
    IF i > Len(cells) THEN acc
    ELSE AddAtBuffered(Put(acc, cells[i], values[i]), cells, values, i + 1)

\* np.add.at(acc, cells, values): unbuffered, one addition per record in turn.
RECURSIVE AddAt(_, _, _, _)
AddAt(acc, cells, values, i) ==
    IF i > Len(cells) THEN acc
    ELSE AddAt(Put(acc, cells[i], Lookup(acc, cells[i]) + values[i]),
               cells, values, i + 1)

\* seq[valid_mask]: the entries of seq at the kept positions, in order.
RECURSIVE Masked(_, _, _)
Masked(seq, keep, i) ==
    IF i > Len(seq) THEN <<>>
    ELSE (IF i \in keep THEN <<seq[i]>> ELSE <<>>) \o Masked(seq, keep, i + 1)

\* lines 84-108: mask, accumulate, normalise.  The result maps each written
\* cell <<row, col>> to its value; the cells not written hold 0.
create_shear_grid(ra_idx, dec_idx, g1, g2, weight, npix_dec, npix_ra) ==
    LET valid_mask == {i \in DOMAIN ra_idx :
                          /\ ra_idx[i] >= 0 /\ ra_idx[i] < npix_ra
                          /\ dec_idx[i] >= 0 /\ dec_idx[i] < npix_dec}
        cells == Masked([i \in DOMAIN ra_idx |-> <<dec_idx[i], ra_idx[i]>>],
                        valid_mask, 1)
        g1v == Masked(g1, valid_mask, 1)
        g2v == Masked(g2, valid_mask, 1)
        wv == Masked(weight, valid_mask, 1)
        g1_sum == AddAt(<<>>, cells, [i \in DOMAIN g1v |-> g1v[i] * wv[i]], 1)
        g2_sum == AddAt(<<>>, cells, [i \in DOMAIN g2v |-> g2v[i] * wv[i]], 1)
        weight_grid == AddAt(<<>>, cells, wv, 1)
        Normalised(sum) == [c \in DOMAIN sum |->
                               IF weight_grid[c] # 0
                               THEN Frac(sum[c], weight_grid[c])
                               ELSE Frac(sum[c], 1)]
    IN  [g1_grid |-> Normalised(g1_sum), g2_grid |-> Normalised(g2_sum)]

\* The value of grid cell <<row, col>>.
Cell(sparse, cell) == IF cell \in DOMAIN sparse THEN sparse[cell] ELSE Zero

\* create_grid, lines 82-90, given the dimensions.  prepare_data and
\* _create_shear_grid come from the CoordinateSystem base class; the binning
\* is that of create_shear_grid.
BinnedGrid(data_df, boundaries, dims, x_idx, y_idx) ==
    [dims |-> dims, x_idx |-> x_idx, y_idx |-> y_idx,
     grids |-> create_shear_grid(x_idx, y_idx, data_df["g1"], data_df["g2"],
                                 data_df["weight"], dims.npix_y, dims.npix_x)]

DigitisedGrid(data_df, boundaries, dims) ==
    BinnedGrid(data_df, boundaries, dims,
        [i \in DOMAIN data_df["coord1_scaled"] |->
            BinIndex(data_df["coord1_scaled"][i], boundaries.coord1_min,
                     boundaries.coord1_max, dims.npix_x)],
        [i \in DOMAIN data_df["coord2_scaled"] |->
            BinIndex(data_df["coord2_scaled"][i], boundaries.coord2_min,
                     boundaries.coord2_max, dims.npix_y)])

\* create_grid, lines 51-90.
create_grid(data_df, boundaries, cfg) ==
    DigitisedGrid(data_df, boundaries, GridDimensions(boundaries, cfg))

(***************************************************************************)
(* The aperture mass filter (aperture_mass.py).  A radius and a scale are   *)
(* kept as sign and square, <<sign, square>> with the square a fraction:   *)
(* the radii the mapper passes are square roots of integers, and the       *)
(* filter uses its arguments only through their squares and their order.   *)
(* Filter values are exact fractions in units of prefactor / pi, which is  *)
(* sqrt(276) / (24 * pi).                                                  *)
(***************************************************************************)
FracAdd(p, q) == Frac(p[1] * q[2] + q[1] * p[2], p[2] * q[2])

FracMul(p, q) == Frac(p[1] * q[1], p[2] * q[2])

FracSub(p, q) == FracAdd(p, <<0 - q[1], q[2]>>)

\* p / q for q # 0.
FracDiv(p, q) == Frac(p[1] * q[2], p[2] * q[1])

Sign(n) == IF n > 0 THEN 1 ELSE IF n < 0 THEN 0 - 1 ELSE 0

\* np.abs of a radius.
NpAbs(x) == <<Abs(x[1]), x[2]>>

\* The sign of scale - a for a radius a >= 0: that of scale^2 - a^2 when the
\* scale is not negative.
SignOfScaleMinus(scale_, a) ==
    IF scale_[1] < 0 THEN 0 - 1
    ELSE Sign(FracSub(scale_[2], a[2])[1])

\* np.heaviside(x1, x2) given the sign of x1: 0 below zero, x2 at zero, 1 above.
NpHeaviside(sign_x1, x2) ==
    IF sign_x1 < 0 THEN Zero ELSE IF sign_x1 = 0 THEN x2 ELSE <<1, 1>>

\* _u_function, line 32: the division is one of Python floats and raises
\* ZeroDivisionError for a zero scale.
UFunctionRaises(scale_) == scale_[2][1] = 0

\* _u_function, line 35 with l = 1, given y ** 2 and 1 / scale ** 2.
Polynomial(y_sq, inv_scale_sq) ==
    FracMul(FracMul(<<3, 1>>, inv_scale_sq),
            FracMul(FracSub(<<1, 1>>, y_sq),
                    FracSub(<<1, 1>>, FracMul(<<3, 1>>, y_sq))))

\* A faulty variant: the step function left out.
u_function_unwindowed(x, scale_) ==
    Polynomial(FracDiv(x[2], scale_[2]), FracDiv(<<1, 1>>, scale_[2]))

\* _u_function, lines 26-38, for scale # 0.
u_function(x, scale_) ==
    FracMul(Polynomial(FracDiv(x[2], scale_[2]), FracDiv(<<1, 1>>, scale_[2])),
            NpHeaviside(SignOfScaleMinus(scale_, NpAbs(x)), <<1, 2>>))

\* The largest radius and scale tried, in halves of a pixel.
MaxRadius == 8

MaxScale == 4

FilterRadii == {<<sg, Frac(n * n, 4)>> : sg \in {0 - 1, 1}, n \in 0..MaxRadius}

FilterScales == {<<Sign(n), Frac(n * n, 4)>> : n \in 0..MaxScale}

InitFilter ==
    /\ pc = "u_function"
    /\ radii \in FilterRadii
    /\ scale \in FilterScales
    /\ filter_vals = NoValue
    /\ mapper_config = NoValue /\ g1_grid = NoValue /\ g2_grid = NoValue
    /\ map_e = NoValue /\ map_b = NoValue /\ noise = NoValue
    /\ pos = NoValue /\ done = NoValue /\ maps = NoValue
    /\ PixelIdle
    /\ RunIdle

\* One call of _u_function.
UFunction ==
    /\ pc = "u_function"
    /\ IF UFunctionRaises(scale)
       THEN /\ pc' = "raised"
            /\ UNCHANGED filter_vals
       ELSE /\ filter_vals' = u_function(radii, scale)
            /\ pc' = "returned"
    /\ UNCHANGED <<mapper_config, g1_grid, g2_grid, scale, radii,
                   map_e, map_b, noise, pos, maps>>
    /\ UNCHANGED done
    /\ UNCHANGED pixelVars
    /\ UNCHANGED runVars

NextFilter == UFunction

SpecFilter == InitFilter /\ [][NextFilter]_vars

(***************************************************************************)
(* The aperture mass mapper (aperture_mass.py).  A grid is a sequence of   *)
(* rows.  np.cos and np.sin round their results: a value is a record       *)
(* [v, inexact] of the exact value and whether rounding has touched it.    *)
(* A rounded cosine or sine of a nonzero angle is never exactly zero, so a *)
(* value with v = 0 and inexact set is a tiny nonzero number; cancellation *)
(* among the residues of different terms is not modelled.                  *)
(***************************************************************************)
Exact(q) == [v |-> q, inexact |-> FALSE]

IsNonzero(a) == a.v[1] # 0 \/ a.inexact

FlNeg(a) == [v |-> <<0 - a.v[1], a.v[2]>>, inexact |-> a.inexact]

\* A product with an exact zero is zero.
FlMul(a, b) ==
    [v |-> FracMul(a.v, b.v),
     inexact |-> (a.inexact /\ IsNonzero(b)) \/ (b.inexact /\ IsNonzero(a))]

FlAdd(a, b) == [v |-> FracAdd(a.v, b.v), inexact |-> a.inexact \/ b.inexact]

\* np.cos(2 * np.arctan2(dy, dx)) for integers: arctan2 is exactly 0 for
\* dy = 0 and dx >= 0 (the pixel itself included), and cos(0) is exactly 1.
Cos2Theta(dy, dx) ==
    IF dy = 0 /\ dx >= 0 THEN Exact(<<1, 1>>)
    ELSE [v |-> Frac(dx * dx - dy * dy, dx * dx + dy * dy), inexact |-> TRUE]

\* np.sin(2 * np.arctan2(dy, dx)): sin(0) is exactly 0.
Sin2Theta(dy, dx) ==
    IF dy = 0 /\ dx >= 0 THEN Exact(Zero)
    ELSE [v |-> Frac(2 * dx * dy, dx * dx + dy * dy), inexact |-> TRUE]

\* _compute_aperture_mass, line 92: the tangential shear.
TangentialShear(g1, g2, dy, dx) ==
    FlAdd(FlMul(FlNeg(Exact(g1)), Cos2Theta(dy, dx)),
          FlNeg(FlMul(Exact(g2), Sin2Theta(dy, dx))))

\* _compute_aperture_mass, line 93: the cross shear.
CrossShear(g1, g2, dy, dx) ==
    FlAdd(FlMul(Exact(g1), Sin2Theta(dy, dx)),
          FlNeg(FlMul(Exact(g2), Cos2Theta(dy, dx))))

\* np.sum over the first k entries of a flattened array.
RECURSIVE NpSum(_, _)
NpSum(terms, k) ==
    IF k = 0 THEN Exact(Zero) ELSE FlAdd(NpSum(terms, k - 1), terms[k])

\* The shape of a grid, and the cell of the k-th entry in row-major order.
NumRows(g) == Len(g)

NumCols(g) == IF Len(g) = 0 THEN 0 ELSE Len(g[1])

RowOf(k, nx) == (k - 1) \div nx

ColOf(k, nx) == (k - 1) % nx

\* _compute_aperture_mass, lines 79-85: the filter value of cell (a, b) seen
\* from the pixel (i, j).
FilterAt(a, b, i, j, scale_) ==
    u_function(<<1, <<(b - j) * (b - j) + (a - i) * (a - i), 1>>>>, scale_)

\* _compute_aperture_mass, lines 79-96: map_e[i, j].
AperturePixelE(g1, g2, scale_, i, j) ==
    NpSum([k \in 1..(NumRows(g1) * NumCols(g1)) |->
              FlMul(Exact(FilterAt(RowOf(k, NumCols(g1)), ColOf(k, NumCols(g1)),
                                   i, j, scale_)),
                    TangentialShear(g1[RowOf(k, NumCols(g1)) + 1][ColOf(k, NumCols(g1)) + 1],
                                    g2[RowOf(k, NumCols(g1)) + 1][ColOf(k, NumCols(g1)) + 1],
                                    RowOf(k, NumCols(g1)) - i,
                                    ColOf(k, NumCols(g1)) - j))],
          NumRows(g1) * NumCols(g1))

\* _compute_aperture_mass, lines 79-97: map_b[i, j].
AperturePixelB(g1, g2, scale_, i, j) ==
    NpSum([k \in 1..(NumRows(g1) * NumCols(g1)) |->
              FlMul(Exact(FilterAt(RowOf(k, NumCols(g1)), ColOf(k, NumCols(g1)),
                                   i, j, scale_)),
                    CrossShear(g1[RowOf(k, NumCols(g1)) + 1][ColOf(k, NumCols(g1)) + 1],
                               g2[RowOf(k, NumCols(g1)) + 1][ColOf(k, NumCols(g1)) + 1],
                               RowOf(k, NumCols(g1)) - i,
                               ColOf(k, NumCols(g1)) - j))],
          NumRows(g1) * NumCols(g1))

\* create_maps, line 124: e_sq of one cell.
ESq(g1, g2) == FracAdd(FracMul(g1, g1), FracMul(g2, g2))

\* create_maps, lines 129-134: noise[i, j] squared, in units of
\* (prefactor / pi) ^ 2; the square roots are not taken.
NoisePixelSq(g1, g2, scale_, i, j) ==
    FlMul(Exact(<<1, 2>>),
          NpSum([k \in 1..(NumRows(g1) * NumCols(g1)) |->
                    Exact(FracMul(
                        FracMul(FilterAt(RowOf(k, NumCols(g1)), ColOf(k, NumCols(g1)),
                                         i, j, scale_),
                                FilterAt(RowOf(k, NumCols(g1)), ColOf(k, NumCols(g1)),
                                         i, j, scale_)),
                        ESq(g1[RowOf(k, NumCols(g1)) + 1][ColOf(k, NumCols(g1)) + 1],
                            g2[RowOf(k, NumCols(g1)) + 1][ColOf(k, NumCols(g1)) + 1])))],
                NumRows(g1) * NumCols(g1)))

\* A faulty variant: a zero noise replaced by one before dividing.
NpDivide_clamped(a, noise_sq) ==
    IF noise_sq.v[1] = 0
    THEN [finite |-> TRUE, sign |-> Sign(a.v[1]), sq |-> FracMul(a.v, a.v)]
    ELSE [finite |-> TRUE, sign |-> Sign(a.v[1]),
          sq |-> FracDiv(FracMul(a.v, a.v), noise_sq.v)]

\* create_maps, line 137: a / noise for one pixel.  numpy does not raise on a
\* zero divisor: 0 / 0 is nan and a nonzero value over 0 is an infinity of
\* its sign ("+-inf" where only a rounding residue decides the sign).  A
\* finite quotient is kept as its sign and its square.
NpDivide(a, noise_sq) ==
    IF noise_sq.v[1] = 0
    THEN [finite |-> FALSE,
          value |-> IF ~IsNonzero(a) THEN "nan"
                    ELSE IF a.v[1] > 0 THEN "inf"
                    ELSE IF a.v[1] < 0 THEN "-inf"
                    ELSE "+-inf"]
    ELSE [finite |-> TRUE, sign |-> Sign(a.v[1]),
          sq |-> FracDiv(FracMul(a.v, a.v), noise_sq.v)]

\* np.zeros((ny, nx)).
NpZeros(ny, nx) == [a \in 1..ny |-> [b \in 1..nx |-> Exact(Zero)]]

\* The shear grids tried: of the shape GridShape, all zero but for at most
\* MaxSources cells.
MaxSources == 1

GridShape == <<3, 3>>

GridCellSet == (1..GridShape[1]) \X (1..GridShape[2])

ShearPayloads == {<<0, 1>>, <<1, 0>>, <<1, 0 - 1>>}

ShearGrid(sources, component) ==
    [a \in 1..GridShape[1] |-> [b \in 1..GridShape[2] |->
        IF <<a, b>> \in DOMAIN sources
        THEN <<sources[<<a, b>>][component], 1>> ELSE Zero]]

\* The mapper configurations tried: the filter scale absent (the default
\* 1.0 applies), and 1.5, 2, sqrt(6.0) and 0 pixels.
MapperConfigs ==
    {{}, {<<"filter", {}>>}}
        \cup {{<<"filter", {<<"scale", sc>>}>>} :
                 sc \in {<<1, <<9, 4>>>>, <<1, <<4, 1>>>>, <<1, <<6, 1>>>>, <<0, Zero>>}}

InitAperture ==
    /\ pc = "create_maps"
    /\ mapper_config \in MapperConfigs
    /\ \E S \in SUBSET GridCellSet :
          /\ Cardinality(S) <= MaxSources
          /\ \E sources \in [S -> ShearPayloads] :
                /\ g1_grid = ShearGrid(sources, 1)
                /\ g2_grid = ShearGrid(sources, 2)
    /\ scale = NoValue /\ radii = NoValue /\ filter_vals = NoValue
    /\ map_e = NoValue /\ map_b = NoValue /\ noise = NoValue
    /\ pos = NoValue /\ done = NoValue /\ maps = NoValue
    /\ PixelIdle
    /\ RunIdle

\* create_maps, lines 117-121, and _compute_aperture_mass, lines 71-73.
CreateMaps ==
    /\ pc = "create_maps"
    /\ scale' = Get(Get(mapper_config, "filter", {}), "scale", <<1, <<1, 1>>>>)
    /\ map_e' = NpZeros(NumRows(g1_grid), NumCols(g1_grid))
    /\ map_b' = NpZeros(NumRows(g1_grid), NumCols(g1_grid))
    /\ pos' = 0
    /\ pc' = "compute_aperture_mass"
    /\ UNCHANGED <<mapper_config, g1_grid, g2_grid, radii, filter_vals, noise, maps>>
    /\ UNCHANGED done
    /\ UNCHANGED pixelVars
    /\ UNCHANGED runVars

\* _compute_aperture_mass, lines 76-97: one pass of the loop body, for the
\* pixel (i, j) = (pos // nx, pos % nx).
ComputePixel ==
    /\ pc = "compute_aperture_mass"
    /\ pos < NumRows(g1_grid) * NumCols(g1_grid)
    /\ IF UFunctionRaises(scale)
       THEN /\ pc' = "raised"
            /\ UNCHANGED <<map_e, map_b, pos>>
       ELSE /\ map_e' = [map_e EXCEPT
                  ![RowOf(pos + 1, NumCols(g1_grid)) + 1][ColOf(pos + 1, NumCols(g1_grid)) + 1] =
                      AperturePixelE(g1_grid, g2_grid, scale,
                                     RowOf(pos + 1, NumCols(g1_grid)),
                                     ColOf(pos + 1, NumCols(g1_grid)))]
            /\ map_b' = [map_b EXCEPT
                  ![RowOf(pos + 1, NumCols(g1_grid)) + 1][ColOf(pos + 1, NumCols(g1_grid)) + 1] =
                      AperturePixelB(g1_grid, g2_grid, scale,
                                     RowOf(pos + 1, NumCols(g1_grid)),
                                     ColOf(pos + 1, NumCols(g1_grid)))]
            /\ pos' = pos + 1
            /\ pc' = pc
    /\ UNCHANGED <<mapper_config, g1_grid, g2_grid, scale, radii, filter_vals,
                   noise, maps>>
    /\ UNCHANGED done
    /\ UNCHANGED pixelVars
    /\ UNCHANGED runVars

\* _compute_aperture_mass, line 99, and create_maps, lines 124-125.
ApertureMassReturn ==
    /\ pc = "compute_aperture_mass"
    /\ pos = NumRows(g1_grid) * NumCols(g1_grid)
    /\ noise' = NpZeros(NumRows(map_e), NumCols(map_e))
    /\ pos' = 0
    /\ pc' = "noise"
    /\ UNCHANGED <<mapper_config, g1_grid, g2_grid, scale, radii, filter_vals,
                   map_e, map_b, maps>>
    /\ UNCHANGED done
    /\ UNCHANGED pixelVars
    /\ UNCHANGED runVars

\* create_maps, lines 127-134: one pass of the noise loop.
NoisePixel ==
    /\ pc = "noise"
    /\ pos < NumRows(map_e) * NumCols(map_e)
    /\ noise' = [noise EXCEPT
          ![RowOf(pos + 1, NumCols(map_e)) + 1][ColOf(pos + 1, NumCols(map_e)) + 1] =
              NoisePixelSq(g1_grid, g2_grid, scale,
                           RowOf(pos + 1, NumCols(map_e)),
                           ColOf(pos + 1, NumCols(map_e)))]
    /\ pos' = pos + 1
    /\ UNCHANGED <<pc, mapper_config, g1_grid, g2_grid, scale, radii, filter_vals,
                   map_e, map_b, maps>>
    /\ UNCHANGED done
    /\ UNCHANGED pixelVars
    /\ UNCHANGED runVars

\* create_maps, line 137: the signal-to-noise maps are returned.
ReturnMaps ==
    /\ pc = "noise"
    /\ pos = NumRows(map_e) * NumCols(map_e)
    /\ maps' = [e |-> [a \in DOMAIN map_e |-> [b \in DOMAIN map_e[a] |->
                          NpDivide(map_e[a][b], noise[a][b])]],
                b |-> [a \in DOMAIN map_b |-> [b \in DOMAIN map_b[a] |->
                          NpDivide(map_b[a][b], noise[a][b])]]]
    /\ pc' = "returned"
    /\ UNCHANGED <<mapper_config, g1_grid, g2_grid, scale, radii, filter_vals,
                   map_e, map_b, noise, pos>>
    /\ UNCHANGED done
    /\ UNCHANGED pixelVars
    /\ UNCHANGED runVars

NextAperture ==
    CreateMaps \/ ComputePixel \/ ApertureMassReturn \/ NoisePixel \/ ReturnMaps

SpecAperture == InitAperture /\ [][NextAperture]_vars

(***************************************************************************)
(* The two loops of the mapper with their passes taken in any order.  A    *)
(* pass of either loop rebinds its locals (x, y, radii, filter_vals,       *)
(* theta, et, ex) before it reads them, so what one pass hands to the next *)
(* is the output arrays alone; the loop bodies below take them as          *)
(* arguments.  done holds the pixels, numbered in row-major order from 1,  *)
(* whose pass has run.                                                     *)
(***************************************************************************)

\* A faulty variant: the pass adds the output pixel to its left, as a
\* running sum along the row would.
ApertureLoopBody_carried(e, b, g1, g2, scale_, i, j) ==
    [map_e |-> [e EXCEPT ![i + 1][j + 1] =
                   FlAdd(AperturePixelE(g1, g2, scale_, i, j),
                         IF j > 0 THEN e[i + 1][j] ELSE Exact(Zero))],
     map_b |-> [b EXCEPT ![i + 1][j + 1] =
                   FlAdd(AperturePixelB(g1, g2, scale_, i, j),
                         IF j > 0 THEN b[i + 1][j] ELSE Exact(Zero))]]

\* _compute_aperture_mass, lines 78-97: the body of the loop for the pixel
\* (i, j), from the maps e and b as the earlier passes left them.
ApertureLoopBody(e, b, g1, g2, scale_, i, j) ==
    [map_e |-> [e EXCEPT ![i + 1][j + 1] = AperturePixelE(g1, g2, scale_, i, j)],
     map_b |-> [b EXCEPT ![i + 1][j + 1] = AperturePixelB(g1, g2, scale_, i, j)]]

\* create_maps, lines 129-134: the body of the noise loop for the pixel (i, j).
NoiseLoopBody(n, g1, g2, scale_, i, j) ==
    [n EXCEPT ![i + 1][j + 1] = NoisePixelSq(g1, g2, scale_, i, j)]

\* The body of the aperture loop for the k-th pixel in row-major order.
AperturePass(m, g1, g2, scale_, k) ==
    ApertureLoopBody(m.map_e, m.map_b, g1, g2, scale_,
                     RowOf(k, NumCols(g1)), ColOf(k, NumCols(g1)))

\* _compute_aperture_mass, lines 72-97: the maps after the first k passes of
\* the loop as the code runs it, row by row.
RECURSIVE RowMajorAperture(_, _, _, _)
RowMajorAperture(g1, g2, scale_, k) ==
    IF k = 0
    THEN [map_e |-> NpZeros(NumRows(g1), NumCols(g1)),
          map_b |-> NpZeros(NumRows(g1), NumCols(g1))]
    ELSE AperturePass(RowMajorAperture(g1, g2, scale_, k - 1), g1, g2, scale_, k)

\* create_maps, lines 125-134: the noise map after the first k passes of the
\* noise loop as the code runs it.
RECURSIVE RowMajorNoise(_, _, _, _)
RowMajorNoise(g1, g2, scale_, k) ==
    IF k = 0
    THEN NpZeros(NumRows(g1), NumCols(g1))
    ELSE NoiseLoopBody(RowMajorNoise(g1, g2, scale_, k - 1), g1, g2, scale_,
                       RowOf(k, NumCols(g1)), ColOf(k, NumCols(g1)))

\* create_maps, line 137: map_e / noise and map_b / noise.
SignalToNoise(e, b, n) ==
    [e |-> [a \in DOMAIN e |-> [c \in DOMAIN e[a] |-> NpDivide(e[a][c], n[a][c])]],
     b |-> [a \in DOMAIN b |-> [c \in DOMAIN b[a] |-> NpDivide(b[a][c], n[a][c])]]]

\* create_maps, lines 121-137, as the code runs them.
RowMajorMaps(g1, g2, scale_) ==
    SignalToNoise(
        RowMajorAperture(g1, g2, scale_, NumRows(g1) * NumCols(g1)).map_e,
        RowMajorAperture(g1, g2, scale_, NumRows(g1) * NumCols(g1)).map_b,
        RowMajorNoise(g1, g2, scale_, NumRows(g1) * NumCols(g1)))

\* The shear grids tried with the passes in any order.
TileShape == <<2, 2>>

TileCellSet == (1..TileShape[1]) \X (1..TileShape[2])

TileGrid(sources, component) ==
    [a \in 1..TileShape[1] |-> [b \in 1..TileShape[2] |->
        IF <<a, b>> \in DOMAIN sources
        THEN <<sources[<<a, b>>][component], 1>> ELSE Zero]]

InitTiles ==
    /\ pc = "create_maps"
    /\ mapper_config \in MapperConfigs
    /\ \E S \in SUBSET TileCellSet :
          /\ Cardinality(S) <= MaxSources
          /\ \E sources \in [S -> ShearPayloads] :
                /\ g1_grid = TileGrid(sources, 1)
                /\ g2_grid = TileGrid(sources, 2)
    /\ scale = NoValue /\ radii = NoValue /\ filter_vals = NoValue
    /\ map_e = NoValue /\ map_b = NoValue /\ noise = NoValue
    /\ pos = NoValue /\ done = NoValue /\ maps = NoValue
    /\ PixelIdle
    /\ RunIdle

\* create_maps, lines 117-121, and _compute_aperture_mass, lines 71-73.
TilesCreateMaps ==
    /\ pc = "create_maps"
    /\ scale' = Get(Get(mapper_config, "filter", {}), "scale", <<1, <<1, 1>>>>)
    /\ map_e' = NpZeros(NumRows(g1_grid), NumCols(g1_grid))
    /\ map_b' = NpZeros(NumRows(g1_grid), NumCols(g1_grid))
    /\ done' = {}
    /\ pc' = "compute_aperture_mass"
    /\ UNCHANGED <<mapper_config, g1_grid, g2_grid, radii, filter_vals, noise,
                   pos, maps>>
    /\ UNCHANGED pixelVars
    /\ UNCHANGED runVars

\* _compute_aperture_mass, lines 78-97: the pass of a pixel that has had none.
TilesComputePixel ==
    /\ pc = "compute_aperture_mass"
    /\ \E k \in (1..(NumRows(g1_grid) * NumCols(g1_grid))) \ done :
          IF UFunctionRaises(scale)
          THEN /\ pc' = "raised"
               /\ UNCHANGED <<map_e, map_b, done>>
          ELSE /\ map_e' = AperturePass([map_e |-> map_e, map_b |-> map_b],
                                        g1_grid, g2_grid, scale, k).map_e
               /\ map_b' = AperturePass([map_e |-> map_e, map_b |-> map_b],
                                        g1_grid, g2_grid, scale, k).map_b
               /\ done' = done \cup {k}
               /\ pc' = pc
    /\ UNCHANGED <<mapper_config, g1_grid, g2_grid, scale, radii, filter_vals,
                   noise, pos, maps>>
    /\ UNCHANGED pixelVars
    /\ UNCHANGED runVars

\* _compute_aperture_mass, line 99, and create_maps, lines 124-125.
TilesApertureMassReturn ==
    /\ pc = "compute_aperture_mass"
    /\ done = 1..(NumRows(g1_grid) * NumCols(g1_grid))
    /\ noise' = NpZeros(NumRows(map_e), NumCols(map_e))
    /\ done' = {}
    /\ pc' = "noise"
    /\ UNCHANGED <<mapper_config, g1_grid, g2_grid, scale, radii, filter_vals,
                   map_e, map_b, pos, maps>>
    /\ UNCHANGED pixelVars
    /\ UNCHANGED runVars

\* create_maps, lines 129-134: the noise pass of a pixel that has had none.
TilesNoisePixel ==
    /\ pc = "noise"
    /\ \E k \in (1..(NumRows(map_e) * NumCols(map_e))) \ done :
          /\ noise' = NoiseLoopBody(noise, g1_grid, g2_grid, scale,
                                    RowOf(k, NumCols(map_e)), ColOf(k, NumCols(map_e)))
          /\ done' = done \cup {k}
    /\ UNCHANGED <<pc, mapper_config, g1_grid, g2_grid, scale, radii, filter_vals,
                   map_e, map_b, pos, maps>>
    /\ UNCHANGED pixelVars
    /\ UNCHANGED runVars

\* create_maps, line 137: the signal-to-noise maps are returned.
TilesReturnMaps ==
    /\ pc = "noise"
    /\ done = 1..(NumRows(map_e) * NumCols(map_e))
    /\ maps' = SignalToNoise(map_e, map_b, noise)
    /\ pc' = "returned"
    /\ UNCHANGED <<mapper_config, g1_grid, g2_grid, scale, radii, filter_vals,
                   map_e, map_b, noise, pos, done>>
    /\ UNCHANGED pixelVars
    /\ UNCHANGED runVars

NextTiles ==
    \/ TilesCreateMaps
    \/ TilesComputePixel
    \/ TilesApertureMassReturn
    \/ TilesNoisePixel
    \/ TilesReturnMaps

SpecTiles == InitTiles /\ [][NextTiles]_vars

(***************************************************************************)
(* The pixel pipeline: the calls run_mapping makes on a PixelSystem, in    *)
(* its order, on a loaded catalog (run.py lines 63-76).                    *)
(***************************************************************************)
MaxRecords == 2

\* Catalog coordinates, as numerators over CoordDen (floats) or as integers.
FloatXs == {0 - 1, 0, 3}

FloatYs == {1, 2}

IntXs == {0, 2}

IntYs == {1}

\* <<g1, g2, weight>> of a record; weights are never negative.
Payloads == {<<1, 0 - 1, 1>>, <<0 - 1, 2, 2>>, <<2, 1, 0>>}

RecordSet(xs, ys) == [x : xs, y : ys, p : Payloads]

Frame(ty, recs) ==
    [c \in {"coord1", "coord2", "g1", "g2", "weight"} |->
        CASE c = "coord1" -> [i \in DOMAIN recs |-> <<ty, recs[i].x>>]
          [] c = "coord2" -> [i \in DOMAIN recs |-> <<ty, recs[i].y>>]
          [] c = "g1" -> [i \in DOMAIN recs |-> recs[i].p[1]]
          [] c = "g2" -> [i \in DOMAIN recs |-> recs[i].p[2]]
          [] OTHER -> [i \in DOMAIN recs |-> recs[i].p[3]]]

Catalogs ==
    UNION {{Frame("f", recs) : recs \in [1..n -> RecordSet(FloatXs, FloatYs)]}
           \cup {Frame("i", recs) : recs \in [1..n -> RecordSet(IntXs, IntYs)]}
           : n \in 0..MaxRecords}

\* The 'pixel' sub-dict of the configuration.
PixelConfigs == {{}, {<<"downsample_factor", <<2, 1>>>>}}

InitPixel ==
    /\ pc = "calculate_boundaries"
    /\ config \in PixelConfigs
    /\ \E df \in Catalogs : frames = <<df>>
    /\ shear_df = 1
    /\ scaled_boundaries = NoValue
    /\ grid = NoValue
    /\ ApertureIdle
    /\ RunIdle

\* run.py lines 63-66; np.min of an empty column raises ValueError.
CalculateBoundaries ==
    /\ pc = "calculate_boundaries"
    /\ IF Len(frames[shear_df]["coord1"]) = 0
       THEN /\ pc' = "raised"
            /\ UNCHANGED scaled_boundaries
       ELSE /\ scaled_boundaries' = calculate_boundaries(frames[shear_df]["coord1"],
                                                         frames[shear_df]["coord2"])
            /\ pc' = "transform_coordinates"
    /\ UNCHANGED <<config, frames, shear_df, grid>>
    /\ UNCHANGED apertureVars
    /\ UNCHANGED runVars

\* run.py line 69: the name shear_df is rebound to the returned DataFrame.
TransformCoordinates ==
    /\ pc = "transform_coordinates"
    /\ LET out == transform_coordinates(frames, shear_df)
       IN  /\ frames' = out.heap
           /\ shear_df' = out.result
    /\ pc' = "create_grid"
    /\ UNCHANGED <<config, scaled_boundaries, grid>>
    /\ UNCHANGED apertureVars
    /\ UNCHANGED runVars

\* run.py lines 72-76.
CreateGrid ==
    /\ pc = "create_grid"
    /\ grid' = create_grid(frames[shear_df], scaled_boundaries, config)
    /\ pc' = "gridded"
    /\ UNCHANGED <<config, frames, shear_df, scaled_boundaries>>
    /\ UNCHANGED apertureVars
    /\ UNCHANGED runVars

NextPixel == CalculateBoundaries \/ TransformCoordinates \/ CreateGrid

SpecPixel == InitPixel /\ [][NextPixel]_vars

(***************************************************************************)
(* create_grid called on boundaries of any size (the grid-size ceiling).   *)
(***************************************************************************)
DimSamples == {0, 1, 7, max_grid_size - 1, max_grid_size, max_grid_size + 1,
               max_grid_size + 9, 2 * max_grid_size, 5 * max_grid_size}

DimConfigs == {{}, {<<"downsample_factor", <<1, 1>>>>},
               {<<"downsample_factor", <<2, 1>>>>},
               {<<"downsample_factor", <<5, 2>>>>}}

EmptyFrame ==
    [c \in {"coord1", "coord2", "g1", "g2", "weight",
            "coord1_scaled", "coord2_scaled"} |-> <<>>]

InitDims ==
    /\ pc = "create_grid"
    /\ config \in DimConfigs
    /\ frames = <<EmptyFrame>>
    /\ shear_df = 1
    /\ \E x0 \in {0 - 5, 0}, w \in DimSamples, h \in DimSamples :
          scaled_boundaries = [coord1_min |-> x0, coord1_max |-> x0 + w,
                               coord2_min |-> 0, coord2_max |-> h,
                               coord1_name |-> "X", coord2_name |-> "Y",
                               units |-> "pixels"]
    /\ grid = NoValue
    /\ ApertureIdle
    /\ RunIdle

NextDims == CreateGrid

SpecDims == InitDims /\ [][NextDims]_vars

(***************************************************************************)
(* run_mapping (run.py).  The coordinate system's methods and the mapper   *)
(* are reached through the objects run_mapping holds; what they return is  *)
(* taken as given here, and every call is recorded in calls.               *)
(* utils.load_shear_data as found takes six positional parameters and is   *)
(* called with seven: the call is modelled with both of its outcomes, the  *)
(* exception and a catalog returned by a loader of the form called.        *)
(***************************************************************************)
\* str.lower() on the strings tried.
Lower(str) ==
    CASE str = "RADEC" -> "radec"
      [] str = "Pixel" -> "pixel"
      [] OTHER -> str

\* A faulty variant: the sign left positive for every coordinate system.
G2Sign_positive(system_type) == 1

\* run_mapping, line 79.
G2Sign(system_type) == IF system_type = "radec" THEN 0 - 1 ELSE 1

\* g2_sign * g2map, line 91: the product, element by element.
TimesGrid(sign, g) ==
    [a \in DOMAIN g |-> [b \in DOMAIN g[a] |-> FracMul(<<sign, 1>>, g[a][b])]]

RunConfigs ==
    {{<<"method", m>>} \cup cs :
        m \in {"aperture_mass", "kaiser_squires", "wiener"},
        cs \in {{}} \cup {{<<"coordinate_system", c>>} :
                            c \in {"radec", "pixel", "RADEC", "Pixel"}}}

RunGridValues == {<<0 - 1, 2>>, Zero, <<1, 1>>}

\* The grids create_grid hands back: one row of two cells.
RunGrids == {<<row>> : row \in [1..2 -> RunGridValues]}

InitRun ==
    /\ pc = "run_mapping"
    /\ run_config \in RunConfigs
    /\ coord_system_type = NoValue
    /\ calls = <<>>
    /\ g1map = NoValue /\ g2map = NoValue /\ mapper = NoValue /\ error = NoValue
    /\ PixelIdle
    /\ ApertureIdle

\* run_mapping, lines 47-49.
GetCoordinateSystem ==
    /\ pc = "run_mapping"
    /\ coord_system_type' = Lower(Get(run_config, "coordinate_system", "radec"))
    /\ calls' = Append(calls, "get_coordinate_system")
    /\ pc' = "load_shear_data"
    /\ UNCHANGED <<run_config, g1map, g2map, mapper, error>>
    /\ UNCHANGED <<pixelVars, apertureVars>>

\* run_mapping, lines 52-60.
LoadShearData ==
    /\ pc = "load_shear_data"
    /\ calls' = Append(calls, "load_shear_data")
    /\ \/ /\ pc' = "raised"
          /\ error' = "TypeError"
       \/ /\ pc' = "run_calculate_boundaries"
          /\ UNCHANGED error
    /\ UNCHANGED <<run_config, coord_system_type, g1map, g2map, mapper>>
    /\ UNCHANGED <<pixelVars, apertureVars>>

\* run_mapping, lines 63-66.
RunCalculateBoundaries ==
    /\ pc = "run_calculate_boundaries"
    /\ calls' = Append(calls, "calculate_boundaries")
    /\ pc' = "run_transform_coordinates"
    /\ UNCHANGED <<run_config, coord_system_type, g1map, g2map, mapper, error>>
    /\ UNCHANGED <<pixelVars, apertureVars>>

\* run_mapping, line 69.
RunTransformCoordinates ==
    /\ pc = "run_transform_coordinates"
    /\ calls' = Append(calls, "transform_coordinates")
    /\ pc' = "run_create_grid"
    /\ UNCHANGED <<run_config, coord_system_type, g1map, g2map, mapper, error>>
    /\ UNCHANGED <<pixelVars, apertureVars>>

\* run_mapping, lines 72-76: create_grid returns the two grids.
RunCreateGrid ==
    /\ pc = "run_create_grid"
    /\ calls' = Append(calls, "create_grid")
    /\ g1map' \in RunGrids
    /\ g2map' \in RunGrids
    /\ pc' = "select_mapper"
    /\ UNCHANGED <<run_config, coord_system_type, mapper, error>>
    /\ UNCHANGED <<pixelVars, apertureVars>>

\* run_mapping, lines 82-88: the mapper is made, or the method refused.
SelectMapper ==
    /\ pc = "select_mapper"
    /\ IF Get(run_config, "method", "") \in {"aperture_mass", "kaiser_squires"}
       THEN /\ mapper' = Get(run_config, "method", "")
            /\ pc' = "mapper_run"
            /\ UNCHANGED error
       ELSE /\ pc' = "raised"
            /\ error' = "ValueError"
            /\ UNCHANGED mapper
    /\ UNCHANGED <<run_config, coord_system_type, calls, g1map, g2map>>
    /\ UNCHANGED <<pixelVars, apertureVars>>

\* run_mapping, lines 79 and 91-93: the mapper is handed the grids; g1_grid
\* and g2_grid are what it receives.
MapperRun ==
    /\ pc = "mapper_run"
    /\ calls' = Append(calls, "mapper.run")
    /\ g1_grid' = g1map
    /\ g2_grid' = TimesGrid(G2Sign(coord_system_type), g2map)
    /\ pc' = "run_returned"
    /\ UNCHANGED <<mapper_config, scale, radii, filter_vals, map_e, map_b,
                   noise, pos, maps>>
    /\ UNCHANGED <<run_config, coord_system_type, g1map, g2map, mapper, error>>
    /\ UNCHANGED done
    /\ UNCHANGED pixelVars

NextRun ==
    \/ GetCoordinateSystem
    \/ LoadShearData
    \/ RunCalculateBoundaries
    \/ RunTransformCoordinates
    \/ RunCreateGrid
    \/ SelectMapper
    \/ MapperRun

SpecRun == InitRun /\ [][NextRun]_vars

(***************************************************************************)
(* Properties of the grid dimensions                                       *)
(***************************************************************************)
\* C2: whenever create_grid has run, both grid dimensions are at most
\* max_grid_size; and when a dimension computed with the configured factor
\* exceeded the ceiling, the factor used is the larger of the configured one
\* and max(raw_npix_x, raw_npix_y) / max_grid_size, never below the configured.
C2_GridSizeCeiling ==
    pc = "gridded" =>
        LET configured == get_grid_parameters(config).downsample_factor
            d == grid.dims
            need == FloatDiv(FromInt(Max2(d.raw_npix_x, d.raw_npix_y)),
                             FromInt(max_grid_size))
        IN  /\ d.npix_x <= max_grid_size
            /\ d.npix_y <= max_grid_size
            /\ FloatGeq(d.downsample, configured)
            /\ d.warned => d.downsample =
                              (IF FloatGeq(configured, need) THEN configured ELSE need)

(***************************************************************************)
(* Properties of the pixel pipeline                                        *)
(***************************************************************************)
RECURSIVE SumOver(_, _)
SumOver(S, term) ==
    IF S = {} THEN 0
    ELSE LET i == CHOOSE k \in S : TRUE
         IN  term[i] + SumOver(S \ {i}, term)

\* The catalog as loaded, and the one create_grid was given.
LoadedFrame == frames[1]

BinnedFrame == frames[shear_df]

GridCells == (0..(grid.dims.npix_y - 1)) \X (0..(grid.dims.npix_x - 1))

\* The records whose bin indices are those of the cell <<row, col>>.
Members(cell) ==
    {i \in DOMAIN grid.x_idx : grid.y_idx[i] = cell[1] /\ grid.x_idx[i] = cell[2]}

WeightedMean(g, members) ==
    LET w == BinnedFrame["weight"]
        total == SumOver(members, w)
    IN  IF total # 0 THEN Frac(SumOver(members, [i \in DOMAIN g |-> g[i] * w[i]]), total)
        ELSE Zero

\* C1: after binning, every grid cell holds sum(g * weight) / sum(weight) over
\* all the records assigned to it when that weight is nonzero and exactly 0
\* otherwise, for g1 and for g2; no cell outside the grid is written; and a
\* record of weight 1 alone in its cell leaves its own shear there.
C1_WeightedMeanPerCell ==
    pc = "gridded" =>
        /\ DOMAIN grid.grids.g1_grid \subseteq GridCells
        /\ DOMAIN grid.grids.g2_grid \subseteq GridCells
        /\ \A cell \in GridCells :
              /\ Cell(grid.grids.g1_grid, cell) = WeightedMean(BinnedFrame["g1"], Members(cell))
              /\ Cell(grid.grids.g2_grid, cell) = WeightedMean(BinnedFrame["g2"], Members(cell))
              /\ \A i \in Members(cell) :
                    Members(cell) = {i} /\ BinnedFrame["weight"][i] = 1 =>
                        /\ Cell(grid.grids.g1_grid, cell) = <<BinnedFrame["g1"][i], 1>>
                        /\ Cell(grid.grids.g2_grid, cell) = <<BinnedFrame["g2"][i], 1>>

\* Two records of different shear and nonzero weight share a cell.
C1_Witness ==
    /\ pc = "gridded"
    /\ \E cell \in GridCells : \E i, j \in Members(cell) :
          /\ i # j
          /\ BinnedFrame["g1"][i] # BinnedFrame["g1"][j]
          /\ BinnedFrame["weight"][i] > 0
          /\ BinnedFrame["weight"][j] > 0
          /\ Cell(grid.grids.g1_grid, cell)[2] > 1

BoundariesKnown == pc \in {"transform_coordinates", "create_grid", "gridded"}

\* C3: the boundaries contain every coordinate of the catalog on both axes,
\* and they are the extremes rounded outwards: each lies less than one pixel
\* beyond the smallest (largest) coordinate.
C3_BoundaryContainment ==
    BoundariesKnown =>
        LET b == scaled_boundaries
            c1 == LoadedFrame["coord1"]
            c2 == LoadedFrame["coord2"]
        IN  /\ \A i \in DOMAIN c1 :
                  /\ b.coord1_min * CoordDen <= Numer(c1[i])
                  /\ Numer(c1[i]) <= b.coord1_max * CoordDen
            /\ \A i \in DOMAIN c2 :
                  /\ b.coord2_min * CoordDen <= Numer(c2[i])
                  /\ Numer(c2[i]) <= b.coord2_max * CoordDen
            /\ \E i \in DOMAIN c1 : Numer(c1[i]) < (b.coord1_min + 1) * CoordDen
            /\ \E i \in DOMAIN c1 : Numer(c1[i]) > (b.coord1_max - 1) * CoordDen
            /\ \E i \in DOMAIN c2 : Numer(c2[i]) < (b.coord2_min + 1) * CoordDen
            /\ \E i \in DOMAIN c2 : Numer(c2[i]) > (b.coord2_max - 1) * CoordDen

\* Boundaries of a catalog with distinct, fractional extremes on the first axis.
C3_Witness ==
    /\ BoundariesKnown
    /\ Len(LoadedFrame["coord1"]) >= 2
    /\ scaled_boundaries.coord1_min * CoordDen < Numer(NpMin(LoadedFrame["coord1"]))
    /\ scaled_boundaries.coord1_max * CoordDen > Numer(NpMax(LoadedFrame["coord1"]))

\* C4: the boundaries are strictly ordered on both axes, so the grid built from
\* them has at least one row and one column.
C4_StrictBoundaries ==
    /\ BoundariesKnown =>
          /\ scaled_boundaries.coord1_min < scaled_boundaries.coord1_max
          /\ scaled_boundaries.coord2_min < scaled_boundaries.coord2_max
    /\ pc = "gridded" => grid.dims.npix_x >= 1 /\ grid.dims.npix_y >= 1

OriginalColumns == {"coord1", "coord2", "g1", "g2", "weight"}

\* C10: transform_coordinates returns a new DataFrame whose coord1_scaled and
\* coord2_scaled are floats equal to coord1 and coord2 record by record and
\* whose original columns are those of the input; the input DataFrame keeps
\* its columns and values.
C10_TransformFrame ==
    [][pc = "transform_coordinates" /\ pc' = "create_grid" =>
        LET input == frames[shear_df]
            output == frames'[shear_df']
        IN  /\ shear_df' # shear_df
            /\ frames'[shear_df] = input
            /\ DOMAIN output = OriginalColumns \cup {"coord1_scaled", "coord2_scaled"}
            /\ \A c \in OriginalColumns : output[c] = input[c]
            /\ DOMAIN output["coord1_scaled"] = DOMAIN input["coord1"]
            /\ DOMAIN output["coord2_scaled"] = DOMAIN input["coord2"]
            /\ \A i \in DOMAIN input["coord1"] :
                  /\ output["coord1_scaled"][i][1] = "f"
                  /\ Numer(output["coord1_scaled"][i]) = Numer(input["coord1"][i])
                  /\ output["coord2_scaled"][i][1] = "f"
                  /\ Numer(output["coord2_scaled"][i]) = Numer(input["coord2"][i])]_vars

\* A catalog of integer coordinates has been transformed.
C10_Witness ==
    /\ pc = "create_grid"
    /\ shear_df = 2
    /\ Len(LoadedFrame["coord1"]) >= 2
    /\ LoadedFrame["coord1"][1][1] = "i"
    /\ LoadedFrame["coord1"][1][2] # 0
    /\ "coord1_scaled" \in DOMAIN frames[shear_df]
    /\ "coord1_scaled" \notin DOMAIN LoadedFrame

\* The scaled coordinates of record i lie within the boundaries on both axes.
WithinBoundaries(i) ==
    /\ scaled_boundaries.coord1_min * CoordDen <= Numer(BinnedFrame["coord1_scaled"][i])
    /\ Numer(BinnedFrame["coord1_scaled"][i]) <= scaled_boundaries.coord1_max * CoordDen
    /\ scaled_boundaries.coord2_min * CoordDen <= Numer(BinnedFrame["coord2_scaled"][i])
    /\ Numer(BinnedFrame["coord2_scaled"][i]) <= scaled_boundaries.coord2_max * CoordDen

\* C11: with bins derived from boundaries that contain every record, every
\* record whose scaled coordinates lie in [min, max] on both axes, one whose
\* coordinate equals max included, gets a bin index inside
\* [0, n_cols) x [0, n_rows) and is kept by the validity mask, so that its
\* cell is written.  It is stated for boundaries with min < max on both
\* axes: a grid without rows or columns keeps no record at all.
C11_UpperEdgeIncluded ==
    (/\ pc = "gridded"
     /\ scaled_boundaries.coord1_min < scaled_boundaries.coord1_max
     /\ scaled_boundaries.coord2_min < scaled_boundaries.coord2_max) =>
        \A i \in DOMAIN grid.x_idx : WithinBoundaries(i) =>
            /\ 0 <= grid.x_idx[i] /\ grid.x_idx[i] < grid.dims.npix_x
            /\ 0 <= grid.y_idx[i] /\ grid.y_idx[i] < grid.dims.npix_y
            /\ <<grid.y_idx[i], grid.x_idx[i]>> \in DOMAIN grid.grids.g1_grid
            /\ <<grid.y_idx[i], grid.x_idx[i]>> \in DOMAIN grid.grids.g2_grid

(***************************************************************************)
(* Properties of the filter and of the aperture mass mapper                *)
(***************************************************************************)
\* C5: for every scale > 0 and every radius r with |r| >= scale, |r| = scale
\* included, the filter value is exactly 0 and the step-function factor is 0
\* there; for |r| < scale the value is A * (1 - y^2) * (1 - 3 y^2) with
\* y = r / scale and A = 3 / scale^2 (in units of prefactor / pi).  The
\* equation is cross-multiplied, with S = scale^2 and R = r^2 as fractions.
C5_CompactSupport ==
    (pc = "returned" /\ filter_vals # NoValue /\ scale[1] > 0) =>
        IF SignOfScaleMinus(scale, NpAbs(radii)) <= 0
        THEN /\ filter_vals = Zero
             /\ NpHeaviside(SignOfScaleMinus(scale, NpAbs(radii)), <<1, 2>>) = Zero
        ELSE filter_vals[1] * scale[2][1] ^ 3 * radii[2][2] ^ 2 =
                 filter_vals[2] * 3 * scale[2][2]
                     * (scale[2][1] * radii[2][2] - radii[2][1] * scale[2][2])
                     * (scale[2][1] * radii[2][2] - 3 * radii[2][1] * scale[2][2])

\* The grid holds exactly one nonzero (g1, g2) pixel, at the cell p.
IsSource(p) == g1_grid[p[1]][p[2]] # Zero \/ g2_grid[p[1]][p[2]] # Zero

SingleSourceAt(p) ==
    /\ IsSource(p)
    /\ \A c \in GridCellSet : IsSource(c) => c = p

\* The Euclidean pixel distance from c to p is less than the scale.
InDisk(c, p) ==
    /\ scale[1] > 0
    /\ (c[1] - p[1]) ^ 2 * scale[2][2] + (c[2] - p[2]) ^ 2 * scale[2][2] < scale[2][1]

ApertureMassDone == pc = "noise" /\ pos = 0

C6_SupportIsDiskEitherMap ==
    ApertureMassDone =>
        \A p \in GridCellSet : SingleSourceAt(p) =>
            \A c \in GridCellSet :
                (IsNonzero(map_e[c[1]][c[2]]) \/ IsNonzero(map_b[c[1]][c[2]]))
                    <=> InDisk(c, p)

NonFinite == {[finite |-> FALSE, value |-> n] : n \in {"nan", "inf", "-inf", "+-inf"}}

\* q is map / noise: the sign of the map value, and a square that multiplied
\* by the noise squared gives the map value squared.
IsQuotient(q, a, noise_sq) ==
    /\ q.finite
    /\ q.sign = Sign(a.v[1])
    /\ FracMul(q.sq, noise_sq.v) = FracMul(a.v, a.v)

\* C7: create_maps does not raise on a zero noise estimate: at every pixel
\* whose noise is exactly zero both returned maps hold a non-finite value
\* (nan or an infinity), nothing is substituted for it, and at every pixel
\* with noise > 0 the returned values are map_e / noise and map_b / noise.
\* The only exception raised is the one of a zero filter scale, before any
\* noise is estimated.
C7_DegenerateNoise ==
    /\ pc = "raised" => UFunctionRaises(scale)
    /\ pc = "returned" =>
          \A c \in GridCellSet :
              IF noise[c[1]][c[2]].v[1] = 0
              THEN /\ maps.e[c[1]][c[2]] \in NonFinite
                   /\ maps.b[c[1]][c[2]] \in NonFinite
              ELSE /\ IsQuotient(maps.e[c[1]][c[2]], map_e[c[1]][c[2]], noise[c[1]][c[2]])
                   /\ IsQuotient(maps.b[c[1]][c[2]], map_b[c[1]][c[2]], noise[c[1]][c[2]])

\* The maps were returned for a grid with a source: the noise is zero at a
\* pixel out of the source's reach and positive at the source.
C7_Witness ==
    /\ pc = "returned"
    /\ SingleSourceAt(<<1, 1>>)
    /\ noise[3][3].v[1] = 0
    /\ maps.e[3][3].value = "nan" /\ maps.b[3][3].value = "nan"
    /\ noise[1][1].v[1] > 0 /\ maps.b[1][1].finite


(***************************************************************************)
(* Properties of run_mapping                                               *)
(***************************************************************************)
\* The grid g with every element negated.
Negated(g) == [a \in DOMAIN g |-> [b \in DOMAIN g[a] |-> FracSub(Zero, g[a][b])]]

\* C8: the mapper receives g1map unchanged; it receives the second grid
\* negated if and only if the coordinate system is 'radec', which is also the
\* system when the coordinate_system key is absent, and unchanged for
\* 'pixel'; for both mapping methods.
C8_SignConvention ==
    pc = "run_returned" =>
        /\ mapper \in {"aperture_mass", "kaiser_squires"}
        /\ g1_grid = g1map
        /\ (~HasKey(run_config, "coordinate_system")) => coord_system_type = "radec"
        /\ coord_system_type \in {"radec", "pixel"}
        /\ coord_system_type = "radec" => g2_grid = Negated(g2map)
        /\ coord_system_type = "pixel" => g2_grid = g2map

\* A sky run with the coordinate_system key absent handed the kaiser_squires
\* mapper a second grid that differs from the one create_grid returned.
C8_Witness ==
    /\ pc = "run_returned"
    /\ ~HasKey(run_config, "coordinate_system")
    /\ mapper = "kaiser_squires"
    /\ g2_grid # g2map
    /\ g2_grid = Negated(g2map)

\* C9: when the configured method is neither 'aperture_mass' nor
\* 'kaiser_squires' the run aborts at once: the catalog is not loaded, no
\* boundaries are computed, no coordinates transformed, no grid built, no
\* mapper run and no maps returned.
C9_UnknownMethodAbortsFirst ==
    Get(run_config, "method", "") \notin {"aperture_mass", "kaiser_squires"} =>
        /\ (pc = "raised" /\ error = "ValueError") =>
              \A k \in DOMAIN calls :
                  calls[k] \notin {"load_shear_data", "calculate_boundaries",
                                   "transform_coordinates", "create_grid", "mapper.run"}
        /\ pc \notin {"select_mapper", "mapper_run", "run_returned"}

(***************************************************************************)
(* Properties of the loops with their passes in any order (SpecTiles)      *)
(***************************************************************************)
\* The cell of the k-th pixel, in row-major order from 1, of the map m.
CellOf(m, k) == m[RowOf(k, NumCols(m)) + 1][ColOf(k, NumCols(m)) + 1]

\* The map n is the map m but for the cell of pixel k.
OnlyWrites(m, n, k) ==
    /\ DOMAIN n = DOMAIN m
    /\ \A q \in 1..(NumRows(m) * NumCols(m)) :
          q # k => CellOf(n, q) = CellOf(m, q)

PixelCount == NumRows(g1_grid) * NumCols(g1_grid)

\* A pass of the aperture loop: one pixel that had no pass gets one, its
\* cell of map_e and of map_b is the only one written, and what is written
\* is what the row-major loop leaves there.
AperturePassStep ==
    \E k \in (1..PixelCount) \ done :
        /\ done' = done \cup {k}
        /\ OnlyWrites(map_e, map_e', k)
        /\ OnlyWrites(map_b, map_b', k)
        /\ CellOf(map_e', k) =
               CellOf(RowMajorAperture(g1_grid, g2_grid, scale, PixelCount).map_e, k)
        /\ CellOf(map_b', k) =
               CellOf(RowMajorAperture(g1_grid, g2_grid, scale, PixelCount).map_b, k)

\* A pass of the noise loop, likewise; map_e and map_b are left alone.
NoisePassStep ==
    \E k \in (1..PixelCount) \ done :
        /\ done' = done \cup {k}
        /\ OnlyWrites(noise, noise', k)
        /\ CellOf(noise', k) =
               CellOf(RowMajorNoise(g1_grid, g2_grid, scale, PixelCount), k)
        /\ map_e' = map_e /\ map_b' = map_b

C12_Step ==
    /\ g1_grid' = g1_grid
    /\ g2_grid' = g2_grid
    /\ (pc = "compute_aperture_mass" /\ pc' = "compute_aperture_mass") =>
           AperturePassStep
    /\ (pc = "noise" /\ pc' = "noise") => NoisePassStep
    /\ pc' = "noise" => done' \subseteq 1..PixelCount
    /\ pc' = "raised" => UFunctionRaises(scale)
    /\ pc' = "returned" => maps' = RowMajorMaps(g1_grid, g2_grid, scale)

\* C12: with the passes of the two loops taken in any order, no step writes
\* g1_grid or g2_grid, every pass writes the cell of one pixel that had not
\* been written, with the value the row-major loop gives that pixel, and
\* the maps returned are those of the row-major loop.
C12_PixelIndependence == [][C12_Step]_vars

\* The aperture loop has run the second and the last pixel before the first,
\* both cells hold a signal, and the first pixel will hold one too.
C12_Witness ==
    /\ pc = "compute_aperture_mass"
    /\ done = {2, PixelCount}
    /\ IsNonzero(CellOf(map_e, 2))
    /\ IsNonzero(CellOf(map_e, PixelCount))
    /\ ~UFunctionRaises(scale)
    /\ IsNonzero(CellOf(RowMajorAperture(g1_grid, g2_grid, scale, PixelCount).map_e, 1))

====
